---- MODULE Spec2Model ----
(***************************************************************************)
(* storage-labels-ui/tools: the two icon scripts.                          *)
(*                                                                         *)
(*   update_icons.py        update_icon(input_path, output_path), called   *)
(*                          twice at module top level                      *)
(*   create_custom_icon.py  create_storage_icon(size, output_path), called *)
(*                          twice at module top level                      *)
(*                                                                         *)
(* An image is kept as the list of drawing operations applied to its base  *)
(* fill; PixelAt reads a pixel back as the last operation covering it.     *)
(* Lengths computed from `size` are kept in thousandths of a pixel, so     *)
(* that the decimal factors of the source (0.15, 0.04, ...) are integers.  *)
(* The recolouring formula is evaluated in IEEE double arithmetic, bit by  *)
(* bit, as Python evaluates it.                                            *)
(***************************************************************************)
EXTENDS Integers, Sequences, FiniteSets, TLC

VARIABLES
    platform,   \* "nt" or "posix": decides os.path.join and path resolution
    fs,         \* the files: resolved path -> image, or NoFile
    console,    \* lines printed so far
    proc,       \* the running script ("idle" when none)
    runs,       \* script runs started so far
    plan,       \* the calls of the running top level, in order
    top,        \* index in plan of the call being executed
    pc,         \* position inside the called function ("idle" outside)
    args,       \* the arguments of the call being executed
    img,        \* local `img`
    new_img,    \* local `new_img` (update_icon)
    x, y,       \* pixel loop counters (update_icon)
    i,          \* shelf loop counter (create_storage_icon)
    box,        \* index of the box being drawn (create_storage_icon)
    log         \* history: calls made, files read and written, exceptions

vars == <<platform, fs, console, proc, runs, plan, top, pc, args,
          img, new_img, x, y, i, box, log>>

-----------------------------------------------------------------------------
(* Bounds of the model *)

\* largest width and height of an input image of update_icon
MaxDim == 2

\* largest `size` drawn for create_storage_icon besides the script's own two
MaxSize == 6

\* number of script runs in one behaviour
MaxRuns == 2

-----------------------------------------------------------------------------
(* IEEE double arithmetic, as far as update_icon uses it.                  *)
(* A positive double is [m |-> <<1, l1, l2, l3, l4>>, e |-> n]: the 53-bit *)
(* significand 2^52 + l1*2^39 + l2*2^26 + l3*2^13 + l4 (four 13-bit limbs  *)
(* below the leading 1) times 2^n.  Zero is FZero.                         *)

\* the limb radix, 2^13
Radix == 8192

FZero == [m |-> <<>>, e |-> 0]

RECURSIVE Pow2(_)
Pow2(k) == IF k = 0 THEN 1 ELSE 2 * Pow2(k - 1)

RECURSIVE BitLen(_)
BitLen(n) == IF n = 0 THEN 0 ELSE 1 + BitLen(n \div 2)

RECURSIVE NormShift(_, _)
\* the least k with s * 2^k >= d  (0 < s <= d)
NormShift(s, d) == IF s >= d THEN 0 ELSE 1 + NormShift(2 * s, d)

\* m + 1, the carry running into the leading limb
AddOne(m) ==
    LET s4 == m[5] + 1
        s3 == m[4] + s4 \div Radix
        s2 == m[3] + s3 \div Radix
        s1 == m[2] + s2 \div Radix
    IN  <<m[1] + s1 \div Radix, s1 % Radix, s2 % Radix, s3 % Radix, s4 % Radix>>

\* m shifted right by sh bits (sh <= 9), and the bits shifted out
ShiftRight(m, sh) ==
    LET D  == Pow2(sh)
        v1 == (m[1] % D) * Radix + m[2]
        v2 == (v1 % D) * Radix + m[3]
        v3 == (v2 % D) * Radix + m[4]
        v4 == (v3 % D) * Radix + m[5]
    IN  [m |-> <<m[1] \div D, v1 \div D, v2 \div D, v3 \div D, v4 \div D>>,
         r |-> v4 % D]

\* the double for m * 2^e once m is brought back to 53 bits, `up` saying
\* whether the bits dropped so far round the last place up
Pack(m, e, up) ==
    LET m1 == IF up THEN AddOne(m) ELSE m
    IN  IF m1[1] = 2 THEN [m |-> ShiftRight(m1, 1).m, e |-> e + 1]
        ELSE [m |-> m1, e |-> e]

\* a product m * 2^e whose leading limb has grown: dropped bits are lost
RoundTowardZero(m, e) ==
    LET sh == BitLen(m[1]) - 1
    IN  Pack(ShiftRight(m, sh).m, e + sh, FALSE)

\* a product m * 2^e whose leading limb has grown, rounded half-to-even to
\* 53 bits (the IEEE default rounding CPython's float arithmetic uses)
RoundNearestEven(m, e) ==
    LET sh == BitLen(m[1]) - 1
        s  == ShiftRight(m, sh)
        D  == Pow2(sh)
        up == 2 * s.r > D \/ (2 * s.r = D /\ s.m[5] % 2 = 1)
    IN  Pack(s.m, e + sh, up)

\* Python's int / int for 0 <= s <= d: the double nearest to s/d
FDiv(s, d) ==
    IF s = 0 THEN FZero
    ELSE LET k  == NormShift(s, d)
             r0 == s * Pow2(k) - d
             r1 == (r0 * Radix) % d
             r2 == (r1 * Radix) % d
             r3 == (r2 * Radix) % d
             r4 == (r3 * Radix) % d
             m  == <<1, (r0 * Radix) \div d, (r1 * Radix) \div d,
                        (r2 * Radix) \div d, (r3 * Radix) \div d>>
             up == 2 * r4 > d \/ (2 * r4 = d /\ m[5] % 2 = 1)
         IN  Pack(m, 0 - (52 + k), up)

\* the exact product m * c, limb by limb
MulSmall(m, c) ==
    LET p4 == m[5] * c
        p3 == m[4] * c + p4 \div Radix
        p2 == m[3] * c + p3 \div Radix
        p1 == m[2] * c + p2 \div Radix
    IN  <<m[1] * c + p1 \div Radix, p1 % Radix, p2 % Radix, p3 % Radix, p4 % Radix>>

\* Python's int * float for a small int c >= 0: the double nearest to c * f
FMulInt(c, f) ==
    IF c = 0 \/ f = FZero THEN FZero
    ELSE RoundNearestEven(MulSmall(f.m, c), f.e)

\* Python's int(f): truncation toward zero, for 0 <= f < 2^26
FInt(f) ==
    IF f = FZero \/ f.e <= 0 - 53 THEN 0
    ELSE LET n == 0 - f.e
         IN  IF n >= 39 THEN (f.m[1] * Radix + f.m[2]) \div Pow2(n - 39)
             ELSE ((f.m[1] * Radix + f.m[2]) * Radix + f.m[3]) \div Pow2(n - 26)

-----------------------------------------------------------------------------
(* Colours *)

Transparent == <<0, 0, 0, 0>>
light_red   == <<255, 179, 186, 255>>
off_white   == <<245, 245, 240, 255>>
brown       == <<139, 69, 19, 255>>
dark_brown  == <<101, 50, 14, 255>>
box_outline == <<80, 40, 10, 255>>
shelf_top_colour   == <<121, 70, 34, 255>>
shelf_side_colour  == <<81, 50, 24, 255>>
box_top_colour     == <<169, 89, 39, 255>>
box_side_colour    == <<109, 59, 29, 255>>

\* update_icon lines 42-46: the pixel written for a source pixel with a > 0
BrownPixel(px) ==
    LET intensity == FDiv(px[1] + px[2] + px[3], 3 * 255)
        brown_r == FInt(FMulInt(139, intensity))
        brown_g == FInt(FMulInt(69, intensity))
        brown_b == FInt(FMulInt(19, intensity))
    IN  <<brown_r, brown_g, brown_b, px[4]>>

-----------------------------------------------------------------------------
(* Paths.  A path is the sequence of its tokens, separators included.      *)

icons_dir ==
    <<"e:", "\\", "Projects", "\\", "storage-labels", "\\",
      "storage-labels-ui", "\\", "src", "\\", "static", "\\", "icons">>

Name192 == "storage-container-192x192.png"
Name512 == "storage-container-512x512.png"

Platforms == {"nt", "posix"}

\* os.sep
Sep(plat) == IF plat = "nt" THEN "\\" ELSE "/"

RECURSIVE os_path_join(_, _)
\* os.path.join(parts[1], parts[2], ...) for relative later parts
os_path_join(plat, parts) ==
    IF Len(parts) = 1 THEN parts[1]
    ELSE os_path_join(plat, SubSeq(parts, 1, Len(parts) - 1))
            \o <<Sep(plat)>> \o parts[Len(parts)]

\* f"{icons_dir}/{name}"
FStringPath(dir, name) == dir \o <<"/", name>>

\* what separates components when the platform opens a file: Windows takes
\* both slashes, POSIX the forward slash alone
IsSep(plat, tok) == tok = "/" \/ (plat = "nt" /\ tok = "\\")

RECURSIVE Resolve(_, _)
\* the file a path names: its components
Resolve(plat, path) ==
    IF path = <<>> THEN << <<>> >>
    ELSE LET rest == Resolve(plat, Tail(path))
         IN  IF IsSep(plat, Head(path)) THEN << <<>> >> \o rest
             ELSE << <<Head(path)>> \o Head(rest) >> \o Tail(rest)

\* update_icons.py lines 54-61
UpdateIn(plat, name)  == os_path_join(plat, <<icons_dir, <<"backup">>, <<name>>>>)
\* the icon recoloured in place, in the backup directory
UpdateInPlace(plat, name) == os_path_join(plat, <<icons_dir, <<"backup">>, <<name>>>>)

UpdateOut(plat, name) == os_path_join(plat, <<icons_dir, <<name>>>>)

\* the synthesized icon written over the backup
CreateOverBackup(name) == FStringPath(icons_dir \o <<"/", "backup">>, name)

\* create_custom_icon.py lines 148-149
CreateOut(name) == FStringPath(icons_dir, name)

BackupDir(plat) == Resolve(plat, os_path_join(plat, <<icons_dir, <<"backup">>>>))

InBackupDir(plat, key) ==
    /\ Len(key) > Len(BackupDir(plat))
    /\ SubSeq(key, 1, Len(BackupDir(plat))) = BackupDir(plat)

Names == {Name192, Name512}

ScriptPaths(plat) ==
    UNION {{UpdateIn(plat, n), UpdateOut(plat, n), CreateOut(n)} : n \in Names}

FileKeys(plat) == {Resolve(plat, p) : p \in ScriptPaths(plat)}

None == "None"

-----------------------------------------------------------------------------
(* Images and drawing.  Coordinates of shapes are in thousandths of a      *)
(* pixel; the drawing library truncates them to pixel indices.             *)

\* one pixel, in thousandths
Milli == 1000

\* float * decimal literal, the literal given in thousandths
Frac(q, thousandths) == (q * thousandths) \div Milli

Max(a, b) == IF a >= b THEN a ELSE b

RECURSIVE GCD(_, _)
GCD(a, b) == IF b = 0 THEN a ELSE GCD(b, a % b)

Grid(w, h) == (0..(w - 1)) \X (0..(h - 1))

\* Image.new('RGBA', (w, h), colour)
Image_new(w, h, colour) == [w |-> w, h |-> h, base |-> colour, ops |-> <<>>]

Draw(im, op) == [im EXCEPT !.ops = Append(@, op)]

Ellipse(xy, fill) ==
    [kind |-> "ellipse", xy |-> xy, fill |-> fill, outline |-> fill, width |-> 0]
Rectangle(xy, fill, outline, width) ==
    [kind |-> "rectangle", xy |-> xy, fill |-> fill, outline |-> outline, width |-> width]
Polygon(xy, fill, outline) ==
    [kind |-> "polygon", xy |-> xy, fill |-> fill, outline |-> outline, width |-> 1]
Line(xy, fill, width) ==
    [kind |-> "line", xy |-> xy, fill |-> fill, outline |-> fill, width |-> width]
\* pixels[x, y] = colour
PutPixel(p, colour) ==
    [kind |-> "point", xy |-> p, fill |-> colour, outline |-> colour, width |-> 0]

Px(c) == c \div Milli

\* the pixels of the ellipse inscribed in the box xy = <<x0, y0, x1, y1>>
InEllipse(xy, p) ==
    LET x0 == Px(xy[1])
        y0 == Px(xy[2])
        x1 == Px(xy[3])
        y1 == Px(xy[4])
        a  == x1 - x0
        b  == y1 - y0
        g  == GCD(a, b)
        dx == 2 * p[1] - (x0 + x1)
        dy == 2 * p[2] - (y0 + y1)
    IN  /\ a > 0 /\ b > 0
        /\ dx * dx * (b \div g) * (b \div g) + dy * dy * (a \div g) * (a \div g)
              <= a * a * (b \div g) * (b \div g)

InRectangle(xy, p) ==
    /\ Px(xy[1]) <= p[1] /\ p[1] <= Px(xy[3])
    /\ Px(xy[2]) <= p[2] /\ p[2] <= Px(xy[4])

\* on which side of the edge u -> v the pixel p lies
Cross(u, v, p) ==
    (Px(v[1]) - Px(u[1])) * (p[2] - Px(u[2])) - (Px(v[2]) - Px(u[2])) * (p[1] - Px(u[1]))

Sides(xy, p) ==
    {Cross(xy[k], xy[(k % Len(xy)) + 1], p) : k \in 1..Len(xy)}

\* the pixels of a convex polygon, edges included: those between its
\* extreme vertices that no edge separates from the others
InPolygon(xy, p) ==
    /\ \E k \in DOMAIN xy : Px(xy[k][1]) <= p[1]
    /\ \E k \in DOMAIN xy : Px(xy[k][1]) >= p[1]
    /\ \E k \in DOMAIN xy : Px(xy[k][2]) <= p[2]
    /\ \E k \in DOMAIN xy : Px(xy[k][2]) >= p[2]
    /\ \/ \A c \in Sides(xy, p) : c >= 0
       \/ \A c \in Sides(xy, p) : c <= 0

\* a horizontal line xy = <<<<x0, y>>, <<x1, y>>>> of the given width
InLine(xy, width, p) ==
    /\ Px(xy[1][1]) <= p[1] /\ p[1] <= Px(xy[2][1])
    /\ Px(xy[1][2]) - ((width - 1) \div 2) <= p[2]
    /\ p[2] <= Px(xy[1][2]) + (width \div 2)

Covers(op, p) ==
    CASE op.kind = "ellipse"   -> InEllipse(op.xy, p)
      [] op.kind = "rectangle" -> InRectangle(op.xy, p)
      [] op.kind = "polygon"   -> InPolygon(op.xy, p)
      [] op.kind = "line"      -> InLine(op.xy, op.width, p)
      [] op.kind = "point"     -> p = op.xy

OnBorder(op, p) ==
    CASE op.kind = "rectangle" ->
             \/ p[1] - Px(op.xy[1]) < op.width \/ Px(op.xy[3]) - p[1] < op.width
             \/ p[2] - Px(op.xy[2]) < op.width \/ Px(op.xy[4]) - p[2] < op.width
      [] op.kind = "polygon"   -> 0 \in Sides(op.xy, p)
      [] OTHER                 -> FALSE

\* the colour an operation gives a pixel it covers
ColourAt(op, p) == IF OnBorder(op, p) THEN op.outline ELSE op.fill

\* pixels[x, y]: what the last operation covering p painted, else the base
PixelAt(im, p) ==
    LET over == {k \in 1..Len(im.ops) : Covers(im.ops[k], p)}
    IN  IF over = {} THEN im.base
        ELSE ColourAt(im.ops[CHOOSE k \in over : \A j \in over : j <= k], p)

Pixels(im) == [p \in Grid(im.w, im.h) |-> PixelAt(im, p)]

\* what fs holds where there is no file (an image has w, h >= 1)
NoFile == [w |-> 0 - 1, h |-> 0 - 1, base |-> Transparent, ops |-> <<>>]

SameImage(a, b) ==
    /\ a # NoFile /\ b # NoFile
    /\ a.w = b.w /\ a.h = b.h
    /\ \A p \in Grid(a.w, a.h) : PixelAt(a, p) = PixelAt(b, p)

-----------------------------------------------------------------------------
(* History records *)

Event(ev, key, content) ==
    [ev |-> ev, run |-> runs, script |-> proc, call |-> top, fn |-> args.fn,
     size |-> args.size, key |-> key, content |-> content]

NoArgs == [fn |-> None, size |-> 0, input_path |-> <<>>, output_path |-> <<>>]

-----------------------------------------------------------------------------
(* update_icon(input_path, output_path)                                    *)

\* lines 9-10: Image.open(input_path).convert('RGBA'); a missing file raises
Image_open ==
    /\ pc = "update_icon:open"
    /\ LET key == Resolve(platform, args.input_path)
       IN  IF fs[key] = NoFile
           THEN /\ pc' = "raised"
                /\ log' = Append(log, Event("raise", key, NoFile))
                /\ img' = img
           ELSE /\ pc' = "update_icon:new"
                /\ log' = Append(log, Event("read", key, fs[key]))
                /\ img' = fs[key]
    /\ UNCHANGED <<platform, fs, console, proc, runs, plan, top, args,
                   new_img, x, y, i, box>>

\* lines 13-14
NewTransparent ==
    /\ pc = "update_icon:new"
    /\ new_img' = Image_new(img.w, img.h, Transparent)
    /\ pc' = "update_icon:ellipse"
    /\ UNCHANGED <<platform, fs, console, proc, runs, plan, top, args,
                   img, x, y, i, box, log>>

\* lines 18-21 (circle_margin = 0)
Background(w, h) == Ellipse(<<0, 0, w * Milli, h * Milli>>, light_red)

\* lines 18-25, and the loop counters at the first pixel
DrawBackground ==
    /\ pc = "update_icon:ellipse"
    /\ new_img' = Draw(new_img, Background(img.w, img.h))
    /\ x' = 0
    /\ y' = 0
    /\ pc' = "update_icon:loop"
    /\ UNCHANGED <<platform, fs, console, proc, runs, plan, top, args,
                   img, i, box, log>>

\* no pixel is skipped: transparent ones are recoloured too
SkipsNothing(px) == FALSE

\* lines 30-34: `if a == 0: continue`
SkipsPixel(px) == px[4] = 0

\* lines 30-46: new_pixels after the pixel at p has been processed

ProcessPixel(dst, src, p) ==
    LET px == PixelAt(src, p)
    IN  IF SkipsPixel(px) THEN dst ELSE Draw(dst, PutPixel(p, BrownPixel(px)))

\* lines 28-46: one iteration of the inner loop
PixelStep ==
    /\ pc = "update_icon:loop"
    /\ y < img.h
    /\ new_img' = ProcessPixel(new_img, img, <<x, y>>)
    /\ IF x + 1 < img.w
       THEN x' = x + 1 /\ y' = y
       ELSE x' = 0 /\ y' = y + 1
    /\ UNCHANGED <<platform, fs, console, proc, runs, plan, top, pc, args,
                   img, i, box, log>>

\* lines 49-50, and the return
SaveUpdated ==
    /\ pc = "update_icon:loop"
    /\ y = img.h
    /\ LET key == Resolve(platform, args.output_path)
       IN  /\ fs' = [fs EXCEPT ![key] = new_img]
           /\ log' = Append(log, Event("write", key, new_img))
    /\ console' = Append(console, <<"Updated icon saved to: ", args.output_path>>)
    /\ pc' = "idle"
    /\ UNCHANGED <<platform, proc, runs, plan, top, args, img, new_img, x, y, i, box>>

UpdateIcon == Image_open \/ NewTransparent \/ DrawBackground \/ PixelStep \/ SaveUpdated

-----------------------------------------------------------------------------
(* Module top level *)

FirstPc(fn) == IF fn = "update_icon" THEN "update_icon:open" ELSE "create_storage_icon:new"

\* the next top-level call statement
CallNext ==
    /\ proc # "idle"
    /\ pc = "idle"
    /\ top < Len(plan)
    /\ top' = top + 1
    /\ args' = plan[top + 1]
    /\ pc' = FirstPc(plan[top + 1].fn)
    /\ log' = Append(log, [Event("call", <<>>, NoFile) EXCEPT
                              !.call = top + 1, !.fn = plan[top + 1].fn,
                              !.size = plan[top + 1].size])
    /\ UNCHANGED <<platform, fs, console, proc, runs, plan, img, new_img, x, y, i, box>>

\* the exception is swallowed and the top level goes on
Swallowed ==
    /\ pc = "raised"
    /\ pc' = "idle"
    /\ UNCHANGED <<platform, fs, console, proc, runs, plan, top, args, img, new_img,
                   x, y, i, box, log>>

\* an exception nobody catches ends the interpreter with a traceback
Uncaught ==
    /\ pc = "raised"
    /\ console' = Append(console, "Traceback (most recent call last)")
    /\ proc' = "idle"
    /\ pc' = "idle"
    /\ UNCHANGED <<platform, fs, runs, plan, top, args, img, new_img, x, y, i, box, log>>

-----------------------------------------------------------------------------
(* update_icon on its own: one call, on an input image drawn from a family *)

Palette ==
    {Transparent, <<255, 255, 255, 0>>, <<255, 255, 255, 255>>, <<10, 20, 30, 128>>}

\* a base colour and one pixel of another colour
InputImages(dim, colours) ==
    {Draw(Image_new(w, h, c[1]), PutPixel(p, c[2])) :
        <<w, h, p, c>> \in {q \in (1..dim) \X (1..dim) \X Grid(dim, dim) \X (colours \X colours) :
                              q[3][1] < q[1] /\ q[3][2] < q[2]}}

EmptyFs(plat) == [k \in FileKeys(plat) |-> NoFile]

InitCall(calls, files) ==
    /\ fs = files
    /\ console = <<>>
    /\ proc = "call"
    /\ runs = 1
    /\ plan = calls
    /\ top = 0
    /\ pc = "idle"
    /\ args = NoArgs
    /\ img = NoFile
    /\ new_img = NoFile
    /\ x = 0 /\ y = 0 /\ i = 0 /\ box = 0
    /\ log = <<>>

UpdateCall(plat, name) ==
    [fn |-> "update_icon", size |-> 0,
     input_path |-> UpdateIn(plat, name), output_path |-> UpdateOut(plat, name)]

InitUpdate ==
    /\ platform \in Platforms
    /\ \E src \in InputImages(MaxDim, Palette) \cup {NoFile} :
          InitCall(<<UpdateCall(platform, Name192)>>,
                   [EmptyFs(platform) EXCEPT
                       ![Resolve(platform, UpdateIn(platform, Name192))] = src])

NextUpdate == CallNext \/ Uncaught \/ UpdateIcon

SpecUpdate == InitUpdate /\ [][NextUpdate]_vars

\* update_icon on one pixel of every intensity: r + g + b runs through 0..765
WidePixels == (0..255) \X {0, 255} \X {0, 255} \X {1, 128, 255}

InitPixel ==
    /\ platform = "nt"
    /\ \E src \in {Draw(Image_new(2, 1, Transparent), PutPixel(p, c)) :
                      <<p, c>> \in Grid(2, 1) \X WidePixels} \cup {NoFile} :
          InitCall(<<UpdateCall(platform, Name512)>>,
                   [EmptyFs(platform) EXCEPT
                       ![Resolve(platform, UpdateIn(platform, Name512))] = src])

SpecPixel == InitPixel /\ [][NextUpdate]_vars


-----------------------------------------------------------------------------
(* create_storage_icon(size, output_path): the geometry, lines 21-34.      *)
(* Every length is in thousandths of a pixel.                              *)

num_shelves == 3

\* a margin with a fixed pixel added
margin_plus_pixel(size) == Frac(size * Milli, 150) + Milli

margin(size)          == Frac(size * Milli, 150)
content_width(size)   == size * Milli - (2 * margin(size))
content_height(size)  == size * Milli - (2 * margin(size))
shelf_thickness(size) == Frac(size * Milli, 40)
shelf_spacing(size)   == content_height(size) \div (num_shelves + 1)
box_width(size)       == Frac(size * Milli, 120)
\* the taller box of before the height was reduced
box_height_tall(size) == Frac(size * Milli, 160)

box_height(size)      == Frac(size * Milli, 100)
box_depth(size)       == Frac(size * Milli, 60)

\* max(1, int(size * 0.005)), lines 47 and 101
OutlineWidth(size) == Max(1, Px(Frac(size * Milli, 5)))
\* max(1, int(size * 0.004)), line 128
TapeWidth(size) == Max(1, Px(Frac(size * Milli, 4)))

\* lines 38-39, for the loop counter k = 0, 1, 2
shelf_y(size, k)  == margin(size) + shelf_spacing(size) * (k + 1)
shelf_depth(size) == box_depth(size)
\* lines 51-52
shelf_left(size)  == margin(size) - Frac(size * Milli, 50)
\* a shelf overhanging by 0.1 * size on the right
shelf_right_wide(size) == margin(size) + content_width(size) + Frac(size * Milli, 100)

shelf_right(size) == margin(size) + content_width(size) + Frac(size * Milli, 50)

\* lines 42-48
ShelfFront(size, k) ==
    Rectangle(<<shelf_left(size), shelf_y(size, k),
                shelf_right(size), shelf_y(size, k) + shelf_thickness(size)>>,
              dark_brown, box_outline, OutlineWidth(size))

\* lines 53-59
ShelfTop(size, k) ==
    Polygon(<< <<shelf_left(size), shelf_y(size, k)>>,
               <<shelf_left(size) + Frac(shelf_depth(size), 500),
                 shelf_y(size, k) - Frac(shelf_depth(size), 300)>>,
               <<shelf_right(size) + Frac(shelf_depth(size), 500),
                 shelf_y(size, k) - Frac(shelf_depth(size), 300)>>,
               <<shelf_right(size), shelf_y(size, k)>> >>,
            shelf_top_colour, box_outline)

\* lines 62-68
ShelfRight(size, k) ==
    Polygon(<< <<shelf_right(size), shelf_y(size, k)>>,
               <<shelf_right(size) + Frac(shelf_depth(size), 500),
                 shelf_y(size, k) - Frac(shelf_depth(size), 300)>>,
               <<shelf_right(size) + Frac(shelf_depth(size), 500),
                 shelf_y(size, k) + shelf_thickness(size) - Frac(shelf_depth(size), 300)>>,
               <<shelf_right(size), shelf_y(size, k) + shelf_thickness(size)>> >>,
            shelf_side_colour, box_outline)

\* lines 72, 80, 87: the top edge of the boxes standing on shelf n = 1, 2, 3
BoxRowY(size, n) == margin(size) + shelf_spacing(size) * n - box_height(size)

shelf_1_y(size) == BoxRowY(size, 1)
shelf_2_y(size) == BoxRowY(size, 2)
shelf_3_y(size) == BoxRowY(size, 3)

\* lines 73-77
boxes_shelf_1(size) ==
    <<margin(size) + Frac(size * Milli, 50),
      margin(size) + Frac(size * Milli, 220),
      margin(size) + Frac(size * Milli, 390)>>
\* lines 81-84
boxes_shelf_2(size) ==
    <<margin(size) + Frac(size * Milli, 100),
      margin(size) + Frac(size * Milli, 320)>>
\* lines 88-92
boxes_shelf_3(size) ==
    <<margin(size) + Frac(size * Milli, 20),
      margin(size) + Frac(size * Milli, 200),
      margin(size) + Frac(size * Milli, 420)>>

\* lines 132-139: the boxes in drawing order, each with its shelf
Boxes(size) ==
    [k \in 1..3 |-> [x |-> boxes_shelf_1(size)[k], y |-> shelf_1_y(size), shelf |-> 1]]
    \o [k \in 1..2 |-> [x |-> boxes_shelf_2(size)[k], y |-> shelf_2_y(size), shelf |-> 2]]
    \o [k \in 1..3 |-> [x |-> boxes_shelf_3(size)[k], y |-> shelf_3_y(size), shelf |-> 3]]

\* draw_3d_box(x, y, w, h, d), lines 97-102
BoxFront(size, bx, by, w, h, d) ==
    Rectangle(<<bx, by, bx + w, by + h>>, brown, box_outline, OutlineWidth(size))

\* lines 106-112
BoxTop(size, bx, by, w, h, d) ==
    Polygon(<< <<bx, by>>,
               <<bx + Frac(d, 500), by - Frac(d, 300)>>,
               <<bx + w + Frac(d, 500), by - Frac(d, 300)>>,
               <<bx + w, by>> >>,
            box_top_colour, box_outline)

\* lines 115-121
BoxRight(size, bx, by, w, h, d) ==
    Polygon(<< <<bx + w, by>>,
               <<bx + w + Frac(d, 500), by - Frac(d, 300)>>,
               <<bx + w + Frac(d, 500), by + h - Frac(d, 300)>>,
               <<bx + w, by + h>> >>,
            box_side_colour, box_outline)

\* lines 124-129
BoxTape(size, bx, by, w, h, d) ==
    LET line_y == by + Frac(h, 400)
    IN  Line(<< <<bx + Frac(w, 200), line_y>>, <<bx + Frac(w, 800), line_y>> >>,
             box_outline, TapeWidth(size))

-----------------------------------------------------------------------------
(* create_storage_icon(size, output_path): the steps                       *)

\* the part of a box the step at pc draws, lines 133, 136, 139
BoxPart(part, size, b) ==
    LET w == box_width(size)
        h == box_height(size)
        d == box_depth(size)
    IN  CASE part = "front" -> BoxFront(size, b.x, b.y, w, h, d)
          [] part = "top"   -> BoxTop(size, b.x, b.y, w, h, d)
          [] part = "right" -> BoxRight(size, b.x, b.y, w, h, d)
          [] part = "tape"  -> BoxTape(size, b.x, b.y, w, h, d)

\* the canvas of the previous call is drawn over instead of a new one
KeepCanvas ==
    /\ pc = "create_storage_icon:new"
    /\ img' = IF img = NoFile THEN Image_new(args.size, args.size, Transparent) ELSE img
    /\ pc' = "create_storage_icon:ellipse"
    /\ UNCHANGED <<platform, fs, console, proc, runs, plan, top, args,
                   new_img, x, y, i, box, log>>

\* lines 9-10
NewCanvas ==
    /\ pc = "create_storage_icon:new"
    /\ img' = Image_new(args.size, args.size, Transparent)
    /\ pc' = "create_storage_icon:ellipse"
    /\ UNCHANGED <<platform, fs, console, proc, runs, plan, top, args,
                   new_img, x, y, i, box, log>>

\* a disc one pixel inside the canvas
DiscInset(size) == Ellipse(<<Milli, Milli, (size - 1) * Milli, (size - 1) * Milli>>, off_white)

\* lines 13-14
Disc(size) == Ellipse(<<0, 0, size * Milli, size * Milli>>, off_white)

DrawDisc ==
    /\ pc = "create_storage_icon:ellipse"
    /\ img' = Draw(img, Disc(args.size))
    /\ i' = 0
    /\ pc' = "create_storage_icon:shelf_front"
    /\ UNCHANGED <<platform, fs, console, proc, runs, plan, top, args,
                   new_img, x, y, box, log>>

DrawShelfFront ==
    /\ pc = "create_storage_icon:shelf_front"
    /\ img' = Draw(img, ShelfFront(args.size, i))
    /\ pc' = "create_storage_icon:shelf_top"
    /\ UNCHANGED <<platform, fs, console, proc, runs, plan, top, args,
                   new_img, x, y, i, box, log>>

DrawShelfTop ==
    /\ pc = "create_storage_icon:shelf_top"
    /\ img' = Draw(img, ShelfTop(args.size, i))
    /\ pc' = "create_storage_icon:shelf_right"
    /\ UNCHANGED <<platform, fs, console, proc, runs, plan, top, args,
                   new_img, x, y, i, box, log>>

\* lines 62-68, and the loop of line 37 going round
DrawShelfRight ==
    /\ pc = "create_storage_icon:shelf_right"
    /\ img' = Draw(img, ShelfRight(args.size, i))
    /\ i' = i + 1
    /\ IF i + 1 < num_shelves
       THEN pc' = "create_storage_icon:shelf_front" /\ box' = box
       ELSE pc' = "create_storage_icon:box_front" /\ box' = 1
    /\ UNCHANGED <<platform, fs, console, proc, runs, plan, top, args,
                   new_img, x, y, log>>

DrawBoxFront ==
    /\ pc = "create_storage_icon:box_front"
    /\ img' = Draw(img, BoxPart("front", args.size, Boxes(args.size)[box]))
    /\ pc' = "create_storage_icon:box_top"
    /\ UNCHANGED <<platform, fs, console, proc, runs, plan, top, args,
                   new_img, x, y, i, box, log>>

DrawBoxTop ==
    /\ pc = "create_storage_icon:box_top"
    /\ img' = Draw(img, BoxPart("top", args.size, Boxes(args.size)[box]))
    /\ pc' = "create_storage_icon:box_right"
    /\ UNCHANGED <<platform, fs, console, proc, runs, plan, top, args,
                   new_img, x, y, i, box, log>>

DrawBoxRight ==
    /\ pc = "create_storage_icon:box_right"
    /\ img' = Draw(img, BoxPart("right", args.size, Boxes(args.size)[box]))
    /\ pc' = "create_storage_icon:box_tape"
    /\ UNCHANGED <<platform, fs, console, proc, runs, plan, top, args,
                   new_img, x, y, i, box, log>>

\* lines 124-129, and the loops of lines 132-139 going round
DrawBoxTape ==
    /\ pc = "create_storage_icon:box_tape"
    /\ img' = Draw(img, BoxPart("tape", args.size, Boxes(args.size)[box]))
    /\ box' = box + 1
    /\ pc' = IF box < Len(Boxes(args.size))
             THEN "create_storage_icon:box_front" ELSE "create_storage_icon:save"
    /\ UNCHANGED <<platform, fs, console, proc, runs, plan, top, args,
                   new_img, x, y, i, log>>

\* lines 142-143, and the return
SaveCreated ==
    /\ pc = "create_storage_icon:save"
    /\ LET key == Resolve(platform, args.output_path)
       IN  /\ fs' = [fs EXCEPT ![key] = img]
           /\ log' = Append(log, Event("write", key, img))
    /\ console' = Append(console, <<"Created custom icon: ", args.output_path>>)
    /\ pc' = "idle"
    /\ UNCHANGED <<platform, proc, runs, plan, top, args, img, new_img, x, y, i, box>>

CreateStorageIcon ==
    \/ NewCanvas \/ DrawDisc
    \/ DrawShelfFront \/ DrawShelfTop \/ DrawShelfRight
    \/ DrawBoxFront \/ DrawBoxTop \/ DrawBoxRight \/ DrawBoxTape
    \/ SaveCreated

-----------------------------------------------------------------------------
(* create_storage_icon on its own: two calls, sizes and paths drawn freely *)

CreateCall(size, path) ==
    [fn |-> "create_storage_icon", size |-> size, input_path |-> <<>>, output_path |-> path]

\* some image already on disk
OldImage == Image_new(1, 1, <<1, 2, 3, 4>>)

FullFs(plat) == [k \in FileKeys(plat) |-> OldImage]

InitTwoCalls(sizes) ==
    /\ platform \in Platforms
    /\ \E s1, s2 \in sizes :
       \E p1, p2 \in {CreateOut(Name192), UpdateIn(platform, Name512)} :
       \E files \in {EmptyFs(platform), FullFs(platform)} :
          InitCall(<<CreateCall(s1, p1), CreateCall(s2, p2)>>, files)

\* small sizes: every pixel of the result can be looked at
InitCreate == InitTwoCalls(1..MaxSize)

\* the sizes the script uses, beside the small ones
InitGeometry == InitTwoCalls((1..MaxSize) \cup {192, 512})

NextCreate == CallNext \/ CreateStorageIcon

SpecCreate == InitCreate /\ [][NextCreate]_vars

SpecGeometry == InitGeometry /\ [][NextCreate]_vars

-----------------------------------------------------------------------------
(* The two scripts, run one after another in any order *)

Scripts == {"create_custom_icon.py", "update_icons.py"}

\* the call statements of a script's top level
ScriptPlan(script, plat) ==
    IF script = "update_icons.py"
    THEN <<UpdateCall(plat, Name192), UpdateCall(plat, Name512)>>
    ELSE <<CreateCall(192, CreateOut(Name192)), CreateCall(512, CreateOut(Name512))>>

\* the print statements that end a script
FinalMessages(script, plat) ==
    IF script = "update_icons.py"
    THEN << "\nIcons updated successfully!",
            <<"Original icons backed up to: ", os_path_join(plat, <<icons_dir, <<"backup">>>>)>> >>
    ELSE << "\nCustom storage icons created successfully!",
            "Original icons are still backed up in the backup folder." >>

\* python <script>: a fresh interpreter
StartScript ==
    /\ proc = "idle"
    /\ runs < MaxRuns
    /\ \E s \in Scripts :
          /\ proc' = s
          /\ plan' = ScriptPlan(s, platform)
    /\ runs' = runs + 1
    /\ top' = 0
    /\ pc' = "idle"
    /\ args' = NoArgs
    /\ img' = NoFile /\ new_img' = NoFile
    /\ x' = 0 /\ y' = 0 /\ i' = 0 /\ box' = 0
    /\ UNCHANGED <<platform, fs, console, log>>

\* the statements after the last call, and the interpreter's exit
Finish ==
    /\ proc \in Scripts
    /\ pc = "idle"
    /\ top = Len(plan)
    /\ console' = console \o FinalMessages(proc, platform)
    /\ log' = Append(log, Event("finish", <<>>, NoFile))
    /\ proc' = "idle"
    /\ UNCHANGED <<platform, fs, runs, plan, top, pc, args, img, new_img, x, y, i, box>>

\* the backup icons the model keeps on disk
BackupImages ==
    {Draw(Image_new(2, 2, Transparent), PutPixel(<<1, 1>>, <<255, 255, 255, 255>>)),
     Draw(Image_new(1, 2, <<10, 20, 30, 128>>), PutPixel(<<0, 0>>, Transparent))}

InitScripts ==
    /\ platform \in Platforms
    /\ \E b1, b2 \in BackupImages \cup {NoFile}, old \in {NoFile, OldImage} :
          fs = [k \in FileKeys(platform) |->
                   IF k = Resolve(platform, UpdateIn(platform, Name192)) THEN b1
                   ELSE IF k = Resolve(platform, UpdateIn(platform, Name512)) THEN b2
                   ELSE old]
    /\ console = <<>>
    /\ proc = "idle"
    /\ runs = 0
    /\ plan = <<>>
    /\ top = 0
    /\ pc = "idle"
    /\ args = NoArgs
    /\ img = NoFile /\ new_img = NoFile
    /\ x = 0 /\ y = 0 /\ i = 0 /\ box = 0
    /\ log = <<>>

NextScripts ==
    StartScript \/ CallNext \/ Finish \/ Uncaught \/ UpdateIcon \/ CreateStorageIcon

SpecScripts == InitScripts /\ [][NextScripts]_vars

-----------------------------------------------------------------------------
(* What the claims speak of *)

\* update_icon has returned normally from the call in args
UpdateReturned ==
    /\ args.fn = "update_icon"
    /\ pc = "idle"
    /\ log[Len(log)].ev = "write"

\* create_storage_icon has returned from the call in args
CreateReturned ==
    /\ args.fn = "create_storage_icon"
    /\ pc = "idle"
    /\ log[Len(log)].ev = "write"

\* the file saved by the call in args
Saved == fs[Resolve(platform, args.output_path)]

IsWrite(e) == e.ev = "write"

\* the files written so far, oldest first
Writes == SelectSeq(log, IsWrite)

Events(script, kinds) == {k \in DOMAIN log : log[k].script = script /\ log[k].ev \in kinds}

\* the files a script has written, and those it has opened or tried to open
WritesOf(script) == {log[k].key : k \in Events(script, {"write"})}
ReadsOf(script)  == {log[k].key : k \in Events(script, {"read", "raise"})}

OutputKeys == {Resolve(platform, UpdateOut(platform, n)) : n \in Names}
BackupKeys == {k \in FileKeys(platform) : InBackupDir(platform, k)}

\* the corners a shape is drawn from
Vertices(op) ==
    CASE op.kind \in {"rectangle", "ellipse"} ->
             {<<op.xy[1], op.xy[2]>>, <<op.xy[3], op.xy[2]>>,
              <<op.xy[3], op.xy[4]>>, <<op.xy[1], op.xy[4]>>}
      [] op.kind \in {"polygon", "line"} -> {op.xy[k] : k \in DOMAIN op.xy}
      [] OTHER -> {op.xy}

\* the numbers a shape is drawn from, in order
Flat(op) ==
    IF op.kind \in {"polygon", "line"}
    THEN [k \in 1..(2 * Len(op.xy)) |-> op.xy[(k + 1) \div 2][2 - (k % 2)]]
    ELSE op.xy

\* the drawing calls of a finished icon: the disc, then three per shelf,
\* then four per box
ShelfShape(im, n, part) == im.ops[1 + 3 * (n - 1) + part]
BoxShape(im, b, part)   == im.ops[1 + 3 * num_shelves + 4 * (b - 1) + part]

\* the extremes of a set of points
MinX(vs) == CHOOSE m \in {v[1] : v \in vs} : \A v \in vs : m <= v[1]
MaxX(vs) == CHOOSE m \in {v[1] : v \in vs} : \A v \in vs : m >= v[1]
MinY(vs) == CHOOSE m \in {v[2] : v \in vs} : \A v \in vs : m <= v[2]
MaxY(vs) == CHOOSE m \in {v[2] : v \in vs} : \A v \in vs : m >= v[2]

\* the corners of the four shapes of box b
BoxVertices(im, b) == UNION {Vertices(BoxShape(im, b, part)) : part \in 1..4}

-----------------------------------------------------------------------------
(* C1 *)

\* C1 as stated: wherever the source pixel has alpha 0, the saved pixel is
\* the transparent base fill (0, 0, 0, 0), inside the disc or outside it.
C1_TransparentStaysTransparent ==
    UpdateReturned =>
        \A p \in Grid(img.w, img.h) :
            PixelAt(img, p)[4] = 0 => PixelAt(Saved, p) = Transparent

\* C1 amended: wherever the source pixel has alpha 0, the saved pixel is what
\* the new image held there before the loop: opaque light red (255, 179, 186,
\* 255) on the background disc, the transparent base fill (0, 0, 0, 0) off it.
C1_TransparentShowsBackground ==
    UpdateReturned =>
        \A p \in Grid(img.w, img.h) :
            PixelAt(img, p)[4] = 0 =>
                PixelAt(Saved, p) =
                    IF InEllipse(<<0, 0, img.w * Milli, img.h * Milli>>, p)
                    THEN <<255, 179, 186, 255>> ELSE <<0, 0, 0, 0>>

\* a saved image with source-transparent pixels both on and off the disc,
\* beside a recoloured one
C1_Witness ==
    /\ UpdateReturned
    /\ \E p, q, r \in Grid(img.w, img.h) :
          /\ PixelAt(img, p)[4] = 0 /\ PixelAt(Saved, p) = light_red
          /\ PixelAt(img, q)[4] = 0 /\ PixelAt(Saved, q) = Transparent
          /\ PixelAt(img, r)[4] > 0

-----------------------------------------------------------------------------
(* C2 *)

-----------------------------------------------------------------------------
(* C3 *)

\* C3: the saved icon is size x size, its first drawing call is the disc on
\* the bounding box (0, 0, size, size), every pixel has alpha 0 or 255, and
\* every pixel of the disc has alpha 255 (alpha 0 only off the disc).
C3_SquareCanvasOpaqueDisc ==
    CreateReturned =>
        LET size == args.size
            bbox == <<0, 0, size * Milli, size * Milli>>
        IN  /\ size > 0
            /\ Saved.w = size /\ Saved.h = size
            /\ DOMAIN Pixels(Saved) = (0..(size - 1)) \X (0..(size - 1))
            /\ Saved.ops[1].kind = "ellipse" /\ Saved.ops[1].xy = bbox
            /\ \A p \in Grid(size, size) :
                  /\ PixelAt(Saved, p)[4] \in {0, 255}
                  /\ InEllipse(bbox, p) => PixelAt(Saved, p)[4] = 255

\* an icon with opaque pixels on the disc and transparent padding off it
C3_Witness ==
    /\ CreateReturned
    /\ \E p, q \in Grid(args.size, args.size) :
          /\ PixelAt(Saved, p) = off_white
          /\ PixelAt(Saved, q) = Transparent

-----------------------------------------------------------------------------
(* C4 *)

\* C4: two calls with the same size make the same drawing calls with the
\* same arguments and save the same pixels and the same file content,
\* whatever the two output paths and whatever the files held before.
C4_SameSizeSameIcon ==
    (Len(Writes) = 2 /\ Writes[1].size = Writes[2].size) =>
        /\ Writes[1].content.ops = Writes[2].content.ops
        /\ Pixels(Writes[1].content) = Pixels(Writes[2].content)
        /\ Writes[1].content = Writes[2].content
        /\ fs[Writes[1].key] = fs[Writes[2].key]

\* two calls of one size to different paths, in a directory that held
\* files before
C4_Witness ==
    /\ Len(Writes) = 2
    /\ Writes[1].size = Writes[2].size
    /\ Writes[1].key # Writes[2].key
    /\ log[1].ev = "call"
    /\ \E k \in FileKeys(platform) : fs[k] = OldImage

-----------------------------------------------------------------------------
(* C5 *)

BothScriptsWrote ==
    proc = "idle" /\ \A s \in Scripts : WritesOf(s) # {}

-----------------------------------------------------------------------------
(* C6 *)

\* C6: a missing input file ends the run where it is found: the failing
\* call writes nothing, and nothing of that run comes after the failure, no
\* call, no file written, no final message.
C6_MissingInputStopsRun ==
    \A j \in DOMAIN log :
        log[j].ev = "raise" =>
            /\ fs[log[j].key] = NoFile
            /\ \A k \in DOMAIN log :
                  log[k].run = log[j].run =>
                      /\ k <= j
                      /\ log[k].call = log[j].call => log[k].ev # "write"
                      /\ log[k].ev # "finish"
            /\ runs = log[j].run =>
                  /\ proc = "idle" \/ pc = "raised"
                  /\ proc = "idle" => console[Len(console)] = "Traceback (most recent call last)"

\* the first icon was written, the second input was missing, the run is over
C6_Witness ==
    /\ proc = "idle"
    /\ \E j, k \in DOMAIN log :
          /\ log[j].ev = "raise" /\ log[j].call = 2
          /\ log[k].ev = "write" /\ log[k].call = 1 /\ log[k].run = log[j].run
          /\ log[j].run = runs

-----------------------------------------------------------------------------
(* C7 *)

\* the numbers of the k-th drawing call scale from size s1 to size s2
Scales(a, s1, b, s2, k) ==
    /\ DOMAIN Flat(a.ops[k]) = DOMAIN Flat(b.ops[k])
    /\ \A j \in DOMAIN Flat(a.ops[k]) :
          Flat(a.ops[k])[j] * s2 = Flat(b.ops[k])[j] * s1

HasWidth(op) == op.kind \in {"rectangle", "line"}

\* C7 as stated: every number of every drawing call, the outline and line
\* widths included, at size s2 is its value at size s1 times s2 / s1.
C7_EverythingScales ==
    Len(Writes) = 2 =>
        LET a  == Writes[1].content
            b  == Writes[2].content
            s1 == Writes[1].size
            s2 == Writes[2].size
        IN  /\ Len(a.ops) = Len(b.ops)
            /\ \A k \in DOMAIN a.ops :
                  /\ Scales(a, s1, b, s2, k)
                  /\ HasWidth(a.ops[k]) => a.ops[k].width * s2 = b.ops[k].width * s1

\* C7 amended: every coordinate of every drawing call (margins, shelf
\* thickness and positions, box dimensions and positions, face offsets) at
\* size s2 is its value at size s1 times s2 / s1; the widths are not: the
\* rectangle outline is max(1, floor(0.005 size)) and the tape line
\* max(1, floor(0.004 size)) pixels.
C7_CoordinatesScaleWidthsFloor ==
    Len(Writes) = 2 =>
        LET a  == Writes[1].content
            b  == Writes[2].content
            s1 == Writes[1].size
            s2 == Writes[2].size
            W(op, s) == IF op.kind = "rectangle"
                        THEN IF (5 * s) \div 1000 >= 1 THEN (5 * s) \div 1000 ELSE 1
                        ELSE IF (4 * s) \div 1000 >= 1 THEN (4 * s) \div 1000 ELSE 1
        IN  /\ Len(a.ops) = Len(b.ops)
            /\ \A k \in DOMAIN a.ops :
                  /\ Scales(a, s1, b, s2, k)
                  /\ HasWidth(a.ops[k]) =>
                        /\ a.ops[k].width = W(a.ops[k], s1)
                        /\ b.ops[k].width = W(b.ops[k], s2)

\* the script's two sizes: coordinates in the ratio 192 : 512, outline
\* widths 1 and 2
C7_Witness ==
    /\ Len(Writes) = 2
    /\ Writes[1].size = 192 /\ Writes[2].size = 512
    /\ ShelfShape(Writes[1].content, 1, 1).width = 1
    /\ ShelfShape(Writes[2].content, 1, 1).width = 2
    /\ ShelfShape(Writes[1].content, 1, 1).xy[1] * 8 = ShelfShape(Writes[2].content, 1, 1).xy[1] * 3

-----------------------------------------------------------------------------
(* C9 *)

-----------------------------------------------------------------------------
(* C10 *)

\* v, a point in thousandths of a pixel, is a whole number of thousandths
\* of size from the origin and within size / 2 of (size / 2, size / 2)
InDisc(v, size) ==
    /\ v[1] % size = 0 /\ v[2] % size = 0
    /\ (2 * (v[1] \div size) - Milli) * (2 * (v[1] \div size) - Milli)
         + (2 * (v[2] \div size) - Milli) * (2 * (v[2] \div size) - Milli)
         <= Milli * Milli

\* the corner pixels of the box of pixels a shape can paint: the pixels of
\* its extreme vertices, moved outwards by its outline or line width
Reach(op) ==
    LET vs == Vertices(op)
    IN  {Px(MinX(vs)) - op.width, Px(MaxX(vs)) + op.width}
            \X {Px(MinY(vs)) - op.width, Px(MaxY(vs)) + op.width}

-----------------------------------------------------------------------------
(* C8 *)

\* C8: no step of either script changes a file of the backup directory, and
\* no file is written that update_icon reads.
C8_BackupUntouched ==
    [][/\ \A k \in BackupKeys : fs'[k] = fs[k]
       /\ \A k \in DOMAIN Writes' :
             Writes'[k].key \notin BackupKeys \cup ReadsOf("update_icons.py")']_vars

\* both scripts have run, the backups are there and were read
C8_Witness ==
    /\ BothScriptsWrote
    /\ runs >= 2
    /\ \A k \in BackupKeys : fs[k] \in BackupImages
    /\ ReadsOf("update_icons.py") = BackupKeys

====
